---- MODULE Spec2Model ----
(***************************************************************************)
(* Model of src/src/router/Router.ts: the Router class, its bounded route  *)
(* stack and its transition confirmation protocol.                         *)
(*                                                                         *)
(* JavaScript is single threaded: every action below is one synchronous    *)
(* run of a public method, of one forEach callback, or of one capability   *)
(* (confirm, cancel, unregister) called by a handler later on.  The        *)
(* forEach of updateRoute is unrolled into one step per handler so that    *)
(* calls made re-entrantly from inside a handler interleave with it.       *)
(***************************************************************************)
EXTENDS Integers, Sequences, FiniteSets, TLC

\* ------------------------------------------------------------------ bounds
MaxStackSize == 1       \* largest stackSize handed to the constructor
MaxScenarioSize == 2    \* the same, for the traced router of ScenarioSpec
MaxTransitions == 2     \* cap on the number of voting rounds ever started
MaxTrace == 3           \* calls recorded from construction in trace

\* ------------------------------------------------------------------ values
Null == "null"
\* null where an array is expected (TLC compares values of one type only)
NullArray == <<"null">>
Undefined == "undefined"
Routes == {"A", "B"}
ScenarioRoutes == Routes \cup {"C"}
Handlers == {"h1", "h2"}
Urls == {"/a", "/missing"}
Reasons == {Undefined, "blocked"}
DefaultCancelError == "Route transition was cancelled"
InProgressError == "Another route transition is in progress"
TypeError == "TypeError"
NoMapperError == "Router cannot handle url changes without a mapping"
NotFoundError == "Route not found"

VARIABLES
  stackSize,           \* Router.stackSize
  mapUrl,              \* Router.mapUrl: "mapper" or Undefined
  thisInComplete,      \* what `this` is inside function complete
  routeStack,          \* Router.routeStack
  effectValue,         \* the value effect.get() returns
  ConfirmTransitions,  \* Router.ConfirmTransitions
  currentTransition,   \* Router.currentTransition: NullArray or the array
  trans,               \* one record per promise created at line 121
  frames,              \* call stack of the forEach loops in progress
  last,                \* what the public call of the step just taken returned
  trace,               \* the public calls since construction
  hung                 \* the thread is inside a loop that never ends

vars == <<stackSize, mapUrl, thisInComplete, routeStack, effectValue,
          ConfirmTransitions, currentTransition, trans, frames, last,
          trace, hung>>

\* ------------------------------------------------------------- array helpers
\* Array.prototype.pop: the last element, undefined on an empty array
ArrayPopValue(s) == IF Len(s) = 0 THEN Undefined ELSE s[Len(s)]
ArrayPopRestSkip(s) == s
ArrayPopRest(s) == IF Len(s) = 0 THEN s ELSE SubSeq(s, 1, Len(s) - 1)
\* Array.prototype.shift: drops the first element, nothing on an empty array
ArrayShift(s) == IF Len(s) = 0 THEN s ELSE Tail(s)
\* Array.prototype.filter(k => k !== effect)
RECURSIVE FilterOut(_, _)
FilterOut(s, h) ==
  IF Len(s) = 0 THEN <<>>
  ELSE IF Head(s) = h THEN FilterOut(Tail(s), h)
       ELSE <<Head(s)>> \o FilterOut(Tail(s), h)
Range(s) == {s[i] : i \in 1..Len(s)}

\* ------------------------------------------------------------- EffectHandler
\* effect.get(): the last fired value, the initial default before any fire
EffectGet == effectValue
\* effect.fire(route): the value get() returns from now on
EffectFire(route) == route

\* Router.update: the guard `!route === null` is never true, fire always runs
Update(route) == EffectFire(route)

\* ------------------------------------------------------------------ push
\* the loop condition of line 96
StackFullLoose(s) == Len(s) > stackSize
StackFull(s) == Len(s) >= stackSize
\* the while loop of lines 96-98; "diverges" when an iteration changes
\* nothing while the condition still holds
RECURSIVE EvictLoop(_)
EvictLoop(s) ==
  IF StackFull(s)
    THEN IF ArrayShift(s) = s THEN [diverges |-> TRUE, stack |-> s]
         ELSE EvictLoop(ArrayShift(s))
    ELSE [diverges |-> FALSE, stack |-> s]
\* the entry push appends at line 101
PushedEntryNew(route) == route
PushedEntry(route) == EffectGet

\* op(route) of each caller: the stack and the effect value after it,
\* the number of fire calls, and whether it ever returns
ApplyEffect(op, route, stk) ==
  IF op = "push"
    THEN LET e == EvictLoop(stk) IN
         IF e.diverges
           THEN [stack |-> e.stack, value |-> effectValue, fires |-> 0,
                 hung |-> TRUE]
           ELSE [stack |-> Append(e.stack, PushedEntry(route)),
                 value |-> Update(route), fires |-> 1, hung |-> FALSE]
    ELSE [stack |-> stk, value |-> Update(route), fires |-> 1,
          hung |-> FALSE]

\* ------------------------------------------------------------- updateRoute
\* line 110: a transition is already in progress
InProgressNever == FALSE
InProgress == currentTransition # NullArray

\* popped: the call took its route off the stack before the round (line 61)
NewTransition(op, route) ==
  [op |-> op, route |-> route, from |-> EffectGet,
   popped |-> (op = "pop" /\ Len(routeStack) > 0),
   snapshot |-> ConfirmTransitions, pos |-> 0,
   confirmed |-> {}, cancelled |-> FALSE,
   promise |-> "pending", error |-> "none", applied |-> 0]

\* updateRoute(route, op) entered with the stack stk: what it leaves behind
UpdateRoute(op, route, stk) ==
  IF InProgress
    THEN [stack |-> stk, value |-> effectValue, ct |-> currentTransition,
          start |-> FALSE, hung |-> FALSE, fires |-> 0,
          promise |-> "rejected", error |-> InProgressError]
  ELSE IF Len(ConfirmTransitions) = 0
    THEN LET e == ApplyEffect(op, route, stk) IN
         [stack |-> e.stack, value |-> e.value, ct |-> currentTransition,
          start |-> FALSE, hung |-> e.hung, fires |-> e.fires,
          promise |-> IF e.hung THEN "pending" ELSE "resolved",
          error |-> "none"]
  ELSE [stack |-> stk, value |-> effectValue, ct |-> ConfirmTransitions,
        start |-> TRUE, hung |-> FALSE, fires |-> 0,
        promise |-> "pending", error |-> "none"]

\* function complete(handler, err) called with `this` = thisObj for
\* transition t; handler = Null is the cancel path
Complete(thisObj, t, handler, err) ==
  IF thisObj = Undefined
    THEN \* this.currentTransition on undefined
         [throws |-> TRUE, ct |-> currentTransition, settle |-> "none",
          error |-> "none"]
  ELSE IF thisObj = "globalThis"
    THEN \* globalThis.currentTransition is undefined: line 130 returns
         [throws |-> FALSE, ct |-> currentTransition, settle |-> "none",
          error |-> "none"]
  ELSE IF currentTransition = NullArray
    THEN [throws |-> FALSE, ct |-> currentTransition, settle |-> "none",
          error |-> "none"]
  ELSE IF handler = Null
    THEN [throws |-> FALSE, ct |-> NullArray, settle |-> "reject",
          error |-> IF err = Undefined THEN DefaultCancelError ELSE err]
  ELSE \* Array has no method indexof: line 138 throws
       [throws |-> TRUE, ct |-> currentTransition, settle |-> "none",
        error |-> "none"]

\* ConfirmTransitions after complete(handler, err): the round's array is
\* the registered array itself (line 119) and the splice of line 140 would
\* write it, but complete throws or returns at line 130 or 138 before
RegisteredAfterSplice(handler) == FilterOut(ConfirmTransitions, handler)
RegisteredAfterComplete(handler) == ConfirmTransitions

\* ------------------------------------------------------------ bookkeeping
\* last when the step was no public call
NoCall ==
  [op |-> "none", promise |-> "none", error |-> "none", fires |-> 0,
   tid |-> 0, preRoute |-> Undefined, preLen |-> 0, afterPush |-> FALSE,
   pushRoute |-> Undefined, pushLen |-> 0,
   urlPromise |-> "none", urlError |-> "none"]
\* last after a call of op: the promise it returned (its status on return
\* and the error it carries), the number of notifications fired, the voting
\* round started, the route and stack length an applied effect replaced,
\* and, for a pop that directly follows a push that applied its effect,
\* the route and stack length that push replaced
CallRecord(op, promise, error, fires, tid) ==
  [op |-> op, promise |-> promise, error |-> error, fires |-> fires,
   tid |-> tid,
   preRoute |-> IF fires > 0 THEN effectValue ELSE Undefined,
   preLen |-> IF fires > 0 THEN Len(routeStack) ELSE 0,
   afterPush |-> op = "pop" /\ last.op = "push" /\ last.fires > 0,
   pushRoute |-> IF op = "pop" /\ last.op = "push" /\ last.fires > 0
                   THEN last.preRoute ELSE Undefined,
   pushLen |-> IF op = "pop" /\ last.op = "push" /\ last.fires > 0
                 THEN last.preLen ELSE 0,
   urlPromise |-> "none", urlError |-> "none"]
Untracked == <<[op |-> "untracked", route |-> Undefined]>>
Extend(entry) ==
  IF trace = Untracked \/ Len(trace) >= MaxTrace THEN Untracked
  ELSE Append(trace, entry)
\* the promise of the outer setUrl/pushUrl: updateUrl does not await op,
\* it returns as soon as op has returned its promise (hangs: op never does)
UrlFields(via, hangs) ==
  IF via \in {"setUrl", "pushUrl"}
    THEN [urlPromise |-> IF hangs THEN "pending" ELSE "resolved"]
    ELSE [urlPromise |-> "none"]

\* the fields after new Router(mapUrl, stackSize); function complete is
\* called as a plain function, so its `this` is undefined in strict code
\* and the global object in sloppy code
Constructed ==
  /\ thisInComplete \in {Undefined, "globalThis"}
  /\ routeStack = <<>>
  /\ effectValue = Undefined
  /\ ConfirmTransitions = <<>>
  /\ currentTransition = NullArray
  /\ trans = <<>>
  /\ frames = <<>>
  /\ last = NoCall
  /\ hung = FALSE

\* new Router(undefined, stackSize): a router without url mapper
Init ==
  /\ stackSize \in 0..MaxStackSize
  /\ mapUrl = Undefined
  /\ trace = Untracked
  /\ Constructed

\* a router with or without url mapper
InitUrl ==
  /\ stackSize \in 0..MaxStackSize
  /\ mapUrl \in {"mapper", Undefined}
  /\ trace = Untracked
  /\ Constructed

\* a router whose calls are recorded in trace from construction on
InitScenario ==
  /\ stackSize \in 0..MaxScenarioSize
  /\ mapUrl = Undefined
  /\ trace = <<>>
  /\ Constructed

\* a public method that returns before updateRoute (lines 77 and 92)
Return(op, route, stk, via) ==
  /\ routeStack' = stk
  /\ last' = [CallRecord(op, "resolved", "none", 0, 0)
                EXCEPT !.urlPromise = UrlFields(via, FALSE).urlPromise]
  /\ trace' = Extend([op |-> via, route |-> route])
  /\ UNCHANGED <<stackSize, mapUrl, thisInComplete, effectValue,
                 ConfirmTransitions, currentTransition, trans, frames, hung>>

\* a public method that reaches `await this.updateRoute(route, op)`
Transit(op, route, stk, via) ==
  LET r == UpdateRoute(op, route, stk) IN
  /\ r.start => Len(trans) < MaxTransitions
  /\ routeStack' = r.stack
  /\ effectValue' = r.value
  /\ currentTransition' = r.ct
  /\ hung' = r.hung
  /\ trans' = IF r.start THEN Append(trans, NewTransition(op, route))
              ELSE trans
  /\ frames' = IF r.start THEN <<Len(trans) + 1>> \o frames ELSE frames
  /\ last' = [CallRecord(op, r.promise, r.error, r.fires,
                           IF r.start THEN Len(trans) + 1 ELSE 0)
                EXCEPT !.urlPromise = UrlFields(via, r.hung).urlPromise]
  /\ trace' = Extend([op |-> via, route |-> route])
  /\ UNCHANGED <<stackSize, mapUrl, thisInComplete, ConfirmTransitions>>

\* ---------------------------------------------------------- public methods
PopCall ==
  Transit("pop", ArrayPopValue(routeStack), ArrayPopRest(routeStack), "pop")

\* `this.routeStack.length = 0` of line 72: the stack set starts from
ClearedStackKept == routeStack
ClearedStack == <<>>
\* `this.get() === route` of lines 73 and 92
SameRouteNever(route) == FALSE
SameRoute(route) == EffectGet = route

SetCall(route, via) ==
  IF SameRoute(route)
    THEN Return("set", route, ClearedStack, via)
    ELSE Transit("set", route, ClearedStack, via)

PushCall(route, via) ==
  IF SameRoute(route)
    THEN Return("push", route, routeStack, via)
    ELSE Transit("push", route, routeStack, via)

\* the mapper handed to the constructor: a pure function url -> Route | null
MapUrl(url) == IF url = "/a" THEN "A" ELSE Null

\* updateUrl when it throws before calling op (lines 177 and 179)
UrlFails(op, error) ==
  /\ last' = [CallRecord(op, "none", "none", 0, 0)
                EXCEPT !.urlPromise = "rejected", !.urlError = error]
  /\ trace' = Extend([op |-> op, route |-> Undefined])
  /\ UNCHANGED <<stackSize, mapUrl, thisInComplete, routeStack, effectValue,
                 ConfirmTransitions, currentTransition, trans, frames, hung>>

UpdateUrl(url, via) ==
  IF mapUrl = Undefined THEN UrlFails(via, NoMapperError)
  ELSE IF MapUrl(url) = Null THEN UrlFails(via, NotFoundError)
  ELSE IF via = "setUrl" THEN SetCall(MapUrl(url), via)
  ELSE PushCall(MapUrl(url), via)

Pop == ~hung /\ PopCall
Set(route) == ~hung /\ SetCall(route, "set")
Push(route) == ~hung /\ PushCall(route, "push")
SetUrl(url) == ~hung /\ UpdateUrl(url, "setUrl")
PushUrl(url) == ~hung /\ UpdateUrl(url, "pushUrl")

\* registerConfirm(effect), for a function that is not in the list
RegisterConfirm(h) ==
  /\ ~hung
  /\ h \notin Range(ConfirmTransitions)
  /\ ConfirmTransitions' = ConfirmTransitions \o <<h>>
  /\ trace' = Untracked
  /\ last' = NoCall
  /\ UNCHANGED <<stackSize, mapUrl, thisInComplete, routeStack, effectValue,
                 currentTransition, trans, frames, hung>>

\* currentTransition after the closure of line 193 ran: filter builds a
\* new array for ConfirmTransitions (line 194), the array of the round in
\* progress is not written
CurrentAfterUnregisterShared(h) ==
  IF currentTransition = NullArray THEN NullArray
  ELSE FilterOut(currentTransition, h)
CurrentAfterUnregister(h) == currentTransition

\* the closure registerConfirm returned for h; on a list without h it
\* leaves an equal list behind
Unregister(h) ==
  /\ ~hung
  /\ h \in Range(ConfirmTransitions)
  /\ ConfirmTransitions' = FilterOut(ConfirmTransitions, h)
  /\ currentTransition' = CurrentAfterUnregister(h)
  /\ last' = NoCall
  /\ UNCHANGED <<stackSize, mapUrl, thisInComplete, routeStack, effectValue,
                 trans, frames, trace, hung>>

\* ------------------------------------------------------------ voting round
\* resolve/reject of the promise of line 121 settle it once only
Settle(tr, promise, error) ==
  IF tr.promise = "pending"
    THEN [tr EXCEPT !.promise = promise, !.error = error]
    ELSE tr
\* the handlers of round t that have received their capabilities
Invoked(t) == {trans[t].snapshot[i] : i \in 1..trans[t].pos}
Vote(tr, h, b) ==
  IF b = "confirm" THEN [tr EXCEPT !.confirmed = @ \cup {h}]
  ELSE IF b = "cancel" THEN [tr EXCEPT !.cancelled = TRUE]
  ELSE tr

\* one callback of the forEach of line 150: the next handler of the round
\* runs; b is what it calls before it returns, catches whether it catches
\* what that call throws.  An exception it lets through ends the forEach and
\* the promise executor, and the promise constructor rejects with it.
Invoke(b, reason, catches) ==
  /\ ~hung
  /\ frames # <<>>
  /\ LET t == Head(frames)
         tr == trans[t]
         h == tr.snapshot[tr.pos + 1]
         c == Complete(thisInComplete, t,
                       IF b = "confirm" THEN h ELSE Null, reason)
         voted == b # "none"
         thrown == voted /\ c.throws /\ ~catches
         tr1 == Vote([tr EXCEPT !.pos = @ + 1], h, b)
         tr2 == IF voted /\ c.settle = "reject"
                  THEN Settle(tr1, "rejected", c.error) ELSE tr1
         tr3 == IF thrown THEN Settle(tr2, "rejected", TypeError) ELSE tr2
     IN /\ trans' = [trans EXCEPT ![t] = tr3]
        /\ currentTransition' = IF voted THEN c.ct ELSE currentTransition
        /\ frames' = IF thrown \/ tr.pos + 1 = Len(tr.snapshot)
                       THEN Tail(frames) ELSE frames
        /\ ConfirmTransitions' = IF b = "confirm"
                                   THEN RegisteredAfterComplete(h)
                                   ELSE ConfirmTransitions
  /\ last' = NoCall
  /\ UNCHANGED <<stackSize, mapUrl, thisInComplete, routeStack, effectValue,
                 trace, hung>>

\* a capability of round t called by handler h after its callback returned;
\* what complete throws then goes to that caller, not to the router
LateVote(t, h, b, reason) ==
  /\ ~hung
  /\ t \in 1..Len(trans)
  /\ h \in Invoked(t)
  /\ LET c == Complete(thisInComplete, t,
                       IF b = "confirm" THEN h ELSE Null, reason)
         tr1 == Vote(trans[t], h, b)
         tr2 == IF c.settle = "reject"
                  THEN Settle(tr1, "rejected", c.error) ELSE tr1
     IN /\ trans' = [trans EXCEPT ![t] = tr2]
        /\ currentTransition' = c.ct
  /\ ConfirmTransitions' = IF b = "confirm" THEN RegisteredAfterComplete(h)
                           ELSE ConfirmTransitions
  /\ last' = NoCall
  /\ UNCHANGED <<stackSize, mapUrl, thisInComplete, routeStack, effectValue,
                 frames, trace, hung>>

Confirm(t, h) == LateVote(t, h, "confirm", Undefined)
Cancel(t, h, reason) == LateVote(t, h, "cancel", reason)

Next ==
  \/ \E route \in Routes : Push(route)
  \/ Pop
  \/ \E route \in Routes : Set(route)
  \/ \E h \in Handlers : RegisterConfirm(h)
  \/ \E h \in Handlers : Unregister(h)
  \/ \E b \in {"none", "confirm", "cancel"}, reason \in Reasons,
        catches \in BOOLEAN : Invoke(b, reason, catches)
  \/ \E t \in 1..MaxTransitions, h \in Handlers : Confirm(t, h)
  \/ \E t \in 1..MaxTransitions, h \in Handlers, reason \in Reasons :
        Cancel(t, h, reason)

Spec == Init /\ [][Next]_vars

\* the same with setUrl and pushUrl
NextUrl ==
  \/ Next
  \/ \E url \in Urls : SetUrl(url)
  \/ \E url \in Urls : PushUrl(url)

UrlSpec == InitUrl /\ [][NextUrl]_vars

\* push, pop and set on a router that never had a confirm handler
NextScenario ==
  \/ \E route \in ScenarioRoutes : Push(route)
  \/ Pop
  \/ \E route \in ScenarioRoutes : Set(route)

ScenarioSpec == InitScenario /\ [][NextScenario]_vars

\* ------------------------------------------------------------ properties
\* the coordinator states of the protocol
Idle == currentTransition = NullArray
\* the transitions that entered voting and whose promise is not settled
PendingTransitions == {t \in 1..Len(trans) : trans[t].promise = "pending"}
\* the handlers snapshotted for round t
Snapshot(t) == Range(trans[t].snapshot)
\* the handlers the router still waits for
Outstanding == IF currentTransition = NullArray THEN {}
               ELSE Range(currentTransition)
\* the call was refused by line 110
Refused(call) ==
  call.promise = "rejected" /\ call.error = InProgressError
CancelErrors == {DefaultCancelError} \cup (Reasons \ {Undefined})

\* C1: at most one transition is pending (Voting) in every reachable state,
\* whatever push, pop, set, setUrl, pushUrl, registerConfirm, unregister,
\* confirm and cancel calls were made, re-entrant ones included.
C1_AtMostOnePending == Cardinality(PendingTransitions) <= 1
\* a transition is pending and a pushUrl/setUrl made meanwhile was refused
C1_Witness ==
  /\ Cardinality(PendingTransitions) = 1
  /\ Refused(last)
  /\ last.urlPromise = "resolved"

\* C2: a transition with a non-empty snapshot commits when every handler of
\* the snapshot has confirmed: once all have confirmed (and none cancelled)
\* its promise is resolved and applyEffect has run exactly once; applyEffect
\* has never run while a snapshot handler has not confirmed.
C2_UnanimousCommit ==
  \A t \in 1..Len(trans) :
    /\ (Snapshot(t) \subseteq trans[t].confirmed /\ ~trans[t].cancelled)
         => (trans[t].promise = "resolved" /\ trans[t].applied = 1)
    /\ trans[t].applied > 0 => Snapshot(t) \subseteq trans[t].confirmed

\* C3: a cancel by any handler of a pending transition aborts it, whoever
\* confirmed before: applyEffect never runs, the promise is rejected with
\* a cancellation error and the coordinator is Idle again.
C3_CancelAborts ==
  \A t \in 1..Len(trans) :
    (trans[t].cancelled /\ ~(Snapshot(t) \subseteq trans[t].confirmed))
      => /\ trans[t].promise = "rejected"
         /\ trans[t].error \in CancelErrors
         /\ trans[t].applied = 0
         /\ (t = Len(trans) /\ frames = <<>>) => Idle

C6_EachInvokedOnce ==
  \A t \in 1..Len(trans) :
    (\A i \in 1..Len(frames) : frames[i] # t)
      => trans[t].pos = Len(trans[t].snapshot)

\* C7: when every handler of a round has voted (all confirmed, or one
\* cancelled) the transition is resolved: its promise is settled and the
\* coordinator is Idle.
C7_VotedResolves ==
  \A t \in 1..Len(trans) :
    (/\ \A i \in 1..Len(frames) : frames[i] # t
     /\ trans[t].cancelled \/ Snapshot(t) \subseteq trans[t].confirmed)
      => /\ trans[t].promise # "pending"
         /\ t = Len(trans) => Idle

ThreePushes(a, b, c) ==
  <<[op |-> "push", route |-> a], [op |-> "push", route |-> b],
    [op |-> "push", route |-> c]>>
\* C9 as stated: stackSize = 2, no handlers, fresh router: push(A), push(B),
\* push(C) of pairwise distinct routes ends with stack [B] and current C.
C9_StackIsB ==
  \A a, b, c \in ScenarioRoutes :
    (stackSize = 2 /\ a # b /\ a # c /\ b # c /\ trace = ThreePushes(a, b, c))
      => routeStack = <<b>> /\ effectValue = c
\* C9 as amended: the same sequence ends with stack [A, B] and current C.
C9_StackIsAB ==
  \A a, b, c \in ScenarioRoutes :
    (stackSize = 2 /\ a # b /\ a # c /\ b # c /\ trace = ThreePushes(a, b, c))
      => routeStack = <<a, b>> /\ effectValue = c
\* the three pushes have been made on a fresh router with stackSize = 2
C9_Witness ==
  /\ stackSize = 2
  /\ \E a, b, c \in ScenarioRoutes :
       a # b /\ a # c /\ b # c /\ trace = ThreePushes(a, b, c)

\* C10 as stated: a push that applied its effect, directly followed by a
\* pop that applied its effect, restores the current route and the stack
\* length of before the push, from a full stack too.
C10_RoundTrip ==
  (last.op = "pop" /\ last.afterPush /\ last.fires = 1)
    => /\ effectValue = last.pushRoute
       /\ Len(routeStack) = last.pushLen
\* C10 as amended: the current route is restored; the stack length is
\* restored when the stack was not full before the push, and is
\* stackSize - 1 when it was full (the push evicted the oldest entry).
C10_RoundTripUnlessFull ==
  (last.op = "pop" /\ last.afterPush /\ last.fires = 1)
    => /\ effectValue = last.pushRoute
       /\ Len(routeStack) = IF last.pushLen = stackSize
                               THEN stackSize - 1 ELSE last.pushLen
\* the round trip has been made from a full stack
C10_Witness ==
  /\ last.op = "pop"
  /\ last.afterPush
  /\ last.fires = 1
  /\ last.pushLen = stackSize

\* C11: pop() on an empty stack yields the empty result, starts no
\* transition (no handler invoked, no voting round) and fires no
\* notification, so that the current route is unchanged.
C11_PopOnEmptyIsSilent ==
  [][(Pop /\ Len(routeStack) = 0)
       => /\ last'.fires = 0
          /\ last'.tid = 0
          /\ trans' = trans
          /\ currentTransition' = currentTransition
          /\ effectValue' = effectValue]_vars

\* C12: push(route) with route equal to the current route is a no-op in
\* every state: the stack is unchanged, no notification fires, no handler
\* is invoked and no transition is started; the call returns normally.
C12_PushSameRouteNoOp ==
  [][\A route \in Routes :
       (Push(route) /\ route = effectValue)
         => /\ routeStack' = routeStack
            /\ effectValue' = effectValue
            /\ last'.fires = 0
            /\ last'.tid = 0
            /\ last'.promise = "resolved"
            /\ trans' = trans
            /\ frames' = frames
            /\ currentTransition' = currentTransition]_vars
\* a push of the current route has returned while a round was pending and
\* the stack held an entry
C12_Witness ==
  /\ last.op = "push"
  /\ last.promise = "resolved"
  /\ last.fires = 0
  /\ PendingTransitions # {}
  /\ Len(routeStack) > 0

\* C13 as stated: set(route) with route different from the current route
\* and no handlers registered leaves the stack empty and fires exactly one
\* notification, carrying route; set(route) with route equal to the current
\* route leaves the stack empty, fires no notification and starts no
\* transition.
C13_SetReplaces ==
  [][\A route \in Routes :
       Set(route)
         => /\ routeStack' = <<>>
            /\ (route # effectValue /\ Len(ConfirmTransitions) = 0)
                 => (last'.fires = 1 /\ effectValue' = route)
            /\ route = effectValue
                 => /\ last'.fires = 0
                    /\ last'.tid = 0
                    /\ trans' = trans
                    /\ effectValue' = effectValue]_vars
\* C13 as amended: the first case also needs that no transition is in
\* progress; with one in progress (its handlers unregistered meanwhile)
\* set(route) leaves the stack empty, fires no notification and is refused
\* with the in-progress error.  The second case is as stated.
C13_SetReplacesWhenIdle ==
  [][\A route \in Routes :
       Set(route)
         => /\ routeStack' = <<>>
            /\ (route # effectValue /\ Len(ConfirmTransitions) = 0 /\ Idle)
                 => (last'.fires = 1 /\ effectValue' = route)
            /\ (route # effectValue /\ ~Idle)
                 => /\ last'.fires = 0
                    /\ Refused(last')
                    /\ effectValue' = effectValue
            /\ route = effectValue
                 => /\ last'.fires = 0
                    /\ last'.tid = 0
                    /\ trans' = trans
                    /\ effectValue' = effectValue]_vars
\* a set without handlers has replaced the route and emptied a stack that
\* held an entry
C13_Witness ==
  /\ last.op = "set"
  /\ last.fires = 1
  /\ last.preLen > 0
  /\ routeStack = <<>>
  /\ effectValue \in Routes

\* C14: set clears the history up front, before the vote: a set that
\* starts a voting round leaves the stack empty and the current route as it
\* was, and when a handler of that round has called cancel the stack is
\* still empty (the previous history is not restored) and the current
\* route is the one of before the call.
C14_SetClearsUpFront ==
  /\ [][\A route \in Routes :
          (Set(route) /\ last'.tid # 0)
            => /\ routeStack' = <<>>
               /\ effectValue' = effectValue
               /\ trans'[last'.tid].from = effectValue]_vars
  /\ [](\A t \in 1..Len(trans) :
          (trans[t].op = "set" /\ t = Len(trans))
            => /\ trans[t].promise = "pending" => routeStack = <<>>
               /\ trans[t].cancelled
                    => routeStack = <<>> /\ effectValue = trans[t].from)
\* a handler has cancelled the round of a set and the promise of the set
\* is rejected
C14_Witness ==
  \E t \in 1..Len(trans) :
    /\ trans[t].op = "set"
    /\ trans[t].cancelled
    /\ trans[t].promise = "rejected"
    /\ routeStack = <<>>

\* C15: setUrl(url) and pushUrl(url) complete only once the transition of
\* the set/push they delegate to has resolved: their promise is not
\* resolved while that transition is still pending, and when the delegated
\* set/push fails the promise of setUrl/pushUrl is rejected with the same
\* error.
C15_UrlAwaitsTransition ==
  (last.op \in {"set", "push"} /\ last.urlPromise # "none" /\ ~hung)
    => /\ last.promise = "pending" => last.urlPromise = "pending"
       /\ last.promise = "rejected"
            => last.urlPromise = "rejected" /\ last.urlError = last.error

C19_FailedPopKeepsStack ==
  /\ [][(Pop /\ last'.promise = "rejected")
         => routeStack' = routeStack]_vars
  /\ [](\A t \in 1..Len(trans) :
          (trans[t].op = "pop" /\ trans[t].promise = "rejected"
             /\ trans[t].popped)
            => /\ Len(routeStack) > 0
               /\ routeStack[Len(routeStack)] = trans[t].route)

\* C20: the apply-effect of a committed push terminates for every stack
\* size the constructor accepts, stackSize = 0 included: the eviction loop
\* of a push is never entered without coming to an end.
C20_PushTerminates == ~hung

====
